---- MODULE Spec2Model ----
(***************************************************************************)
(* The X-Ray / Word Wise annotation engine of src/epub.py (class EPUB):    *)
(* the entity table filled by add_entity, the lemma table filled by        *)
(* add_lemma, the occurrence index, the pruning pass remove_entities, the  *)
(* footnote builders and the splicer insert_anchor_elements.               *)
(***************************************************************************)
EXTENDS Integers, Sequences, FiniteSets, TLC

\* ---------------------------------------------------------------- bounds
MaxSpans == 3       \* add_entity / add_lemma calls of one run
BufLen == 3         \* characters of the XHTML text of the first part

\* ---------------------------------------------------------------- inputs
Paths == {"ch1.xhtml", "ch2.xhtml"}
\* the mentions the NER may hand over: <<entity, ner_label>>
Mentions == {<<"John", "PERSON">>, <<"John", "GPE">>,
             <<"John Smith", "PER">>, <<"Paris", "GPE">>}
LemmaWords == {"be", "go"}
Langs == {"en", "zh"}
\* the preferences a run may be finished with
PrefsSet == {[minimal_x_ray_count |-> 1, search_people |-> TRUE],
             [minimal_x_ray_count |-> 2, search_people |-> FALSE],
             [minimal_x_ray_count |-> 2, search_people |-> TRUE],
             [minimal_x_ray_count |-> 3, search_people |-> FALSE]}
\* the custom X-Ray tables a run may be constructed with: name -> description
CustomTables == {[n \in {} |-> ""], [n \in {"John Smith"} |-> "custom text"]}
\* canonical names an external lookup may have a cached summary for
Cacheable == {"Paris"}

\* Python's None for a span end
None == -1

\* the text of a part as read at epub.py:200-201; a character is named by
\* its offset, so a copied, dropped or repeated character stays visible;
\* the second part is a one-character text
xhtml_str(xhtml_path) ==
    IF xhtml_path = "ch1.xhtml" THEN [i \in 1..BufLen |-> i - 1] ELSE <<0>>

\* Python's s[lo:hi] for lo, hi >= 0 or None
Slice(s, lo, hi) ==
    LET a == IF lo = None THEN 0 ELSE lo
        b0 == IF hi = None THEN Len(s) ELSE hi
        b == IF b0 > Len(s) THEN Len(s) ELSE b0
    IN IF a >= b THEN <<>> ELSE SubSeq(s, a + 1, b)

VARIABLES
    entity_id,            \* epub.py:51
    entities,             \* epub.py:52, a dict in insertion order
    entity_occurrences,   \* epub.py:53
    removed_entity_ids,   \* epub.py:54
    custom_x_ray,         \* epub.py:63
    lemmas,               \* epub.py:65, a dict in insertion order
    lemma_id,             \* epub.py:66
    mediawiki,            \* the names mediawiki.get_cache answers for
    prefs,                \* the prefs modify_epub was called with
    lang,                 \* the lang modify_epub was called with
    x_ray_xhtml,          \* the file written at epub.py:294-295
    word_wise_xhtml,      \* the file written at epub.py:317-320
    new_xhtml,            \* per part, the text written at epub.py:216-228
    pc,                   \* "scan" until modify_epub has run, then "done"
    job                   \* parse_job.py: one fragment, its matches, the rows

vars == <<entity_id, entities, entity_occurrences, removed_entity_ids,
          custom_x_ray, lemmas, lemma_id, mediawiki, prefs, lang,
          x_ray_xhtml, word_wise_xhtml, new_xhtml, pc, job>>

NotWritten == [written |-> FALSE, body |-> <<>>, css |-> FALSE]
NoPrefs == [minimal_x_ray_count |-> 0, search_people |-> FALSE]
\* no fragment handed to parse_job.py
NoJob == [pc |-> "idle", is_kfx |-> FALSE, lang |-> "en", start |-> 0,
          text |-> <<>>, keywords |-> <<>>, ents |-> <<>>,
          ll_rows |-> <<>>, x_ray_rows |-> <<>>]

Init ==
    /\ entity_id = 0
    /\ entities = <<>>
    /\ entity_occurrences = [p \in Paths |-> <<>>]
    /\ removed_entity_ids = {}
    /\ custom_x_ray \in CustomTables
    /\ lemmas = <<>>
    /\ lemma_id = 0
    /\ mediawiki = {}
    /\ prefs = NoPrefs
    /\ lang = "en"
    /\ x_ray_xhtml = NotWritten
    /\ word_wise_xhtml = NotWritten
    /\ new_xhtml = [p \in Paths |-> NotWritten]
    /\ pc = "scan"
    /\ job = NoJob

\* ------------------------------------------------- the annotation reference
\* the fourth field of an occurrence: an int entity id or a str lemma
EntityRef(n) == [isint |-> TRUE, n |-> n, s |-> ""]
LemmaRef(w) == [isint |-> FALSE, n |-> 0, s |-> w]

\* ---------------------------------------------------------- dict helpers
\* self.entities.get(entity): the position of the key, 0 for a miss
Get(ents, name) ==
    IF \E i \in 1..Len(ents) : ents[i].name = name
    THEN CHOOSE i \in 1..Len(ents) : ents[i].name = name
    ELSE 0

\* del d[key] for the key at position i
DictDel(d, i) == [k \in 1..(Len(d) - 1) |-> IF k < i THEN d[k] ELSE d[k + 1]]

\* ------------------------------------------------------- fuzzy matching
FUZZ_THRESHOLD == 90
PERSON_LABELS == {"PERSON", "PER", "persName"}

\* the whitespace-separated tokens of a name
Tokens(name) ==
    CASE name = "John" -> {"John"}
      [] name = "John Smith" -> {"John", "Smith"}
      [] name = "Paris" -> {"Paris"}

\* the normalised indel similarity of two of the names that share no token
\* (100 * 2 * longest common subsequence / total length, rounded down)
ratio(a, b) ==
    CASE {a, b} = {"John Smith", "Paris"} -> 13
      [] OTHER -> 0

\* rapidfuzz.fuzz.token_set_ratio: 100 when the tokens of one name are all
\* tokens of the other, the similarity of the strings otherwise
token_set_ratio(a, b) ==
    LET ta == Tokens(a)
        tb == Tokens(b)
    IN IF ta \cap tb # {} /\ (ta \subseteq tb \/ tb \subseteq ta)
       THEN 100
       ELSE ratio(a, b)

\* rapidfuzz.process.extractOne over self.entities.keys(): the position of
\* the best key scoring at least score_cutoff, the first one among equal
\* scores, 0 when there is none
extractOne(query, ents, score_cutoff) ==
    LET ok == {i \in 1..Len(ents) :
                  token_set_ratio(query, ents[i].name) >= score_cutoff}
    IN IF ok = {} THEN 0
       ELSE CHOOSE i \in ok : \A j \in ok :
                \/ token_set_ratio(query, ents[i].name)
                       > token_set_ratio(query, ents[j].name)
                \/ /\ token_set_ratio(query, ents[i].name)
                          = token_set_ratio(query, ents[j].name)
                   /\ i <= j

\* mediawiki.is_full_name: both names are person names and the new one
\* holds every token of the old one and more
is_full_name(partial_name, partial_label, full_name, full_label) ==
    /\ partial_label \in PERSON_LABELS
    /\ full_label \in PERSON_LABELS
    /\ Tokens(partial_name) \subseteq Tokens(full_name)
    /\ Tokens(partial_name) # Tokens(full_name)

\* ------------------------------------------------------------ add_entity
\* a merge that records the occurrence and leaves the count
CountUp_Forgotten(data) == data

\* entity_data["count"] += 1
CountUp(data) == [data EXCEPT !.count = @ + 1]

\* the record of epub.py:153-158
NewRecord(entity, id, ner_label, book_quote) ==
    [name |-> entity, id |-> id, label |-> ner_label,
     quote |-> book_quote, count |-> 1]

\* a promotion that inserts the new key and forgets to delete the old one
Promote_KeepsOldKey(ents, j, entity) ==
    Append(ents, [ents[j] EXCEPT !.name = entity])

\* self.entities[entity] = matched_entity; del self.entities[matched_name]
\* the new key is inserted last, the old key is removed
Promote(ents, j, entity) ==
    Append(DictDel(ents, j), [ents[j] EXCEPT !.name = entity])

\* a fuzzy branch that promotes the new name without asking is_full_name
FuzzyMerge_AlwaysPromotes(ents, j, entity, ner_label) ==
    Promote([ents EXCEPT ![j] = CountUp(@)], j, entity)

\* the fuzzy branch, epub.py:144-150, for the matched key at position j
FuzzyMerge(ents, j, entity, ner_label) ==
    LET counted == [ents EXCEPT ![j] = CountUp(@)]
    IN IF is_full_name(ents[j].name, ents[j].label, entity, ner_label)
       THEN Promote(counted, j, entity)
       ELSE counted

\* an elif that fuzzy-matches pinned names too
FuzzyIndex_IgnoresPinned(ents, custom, entity) ==
    extractOne(entity, ents, FUZZ_THRESHOLD)

\* the position of the fuzzy match the elif of epub.py:136-143 accepts
FuzzyIndex(ents, custom, entity) ==
    IF entity \notin DOMAIN custom
    THEN extractOne(entity, ents, FUZZ_THRESHOLD)
    ELSE 0

\* the table, the id counter and the id of the occurrence after the
\* if / elif / else of epub.py:133-159
Resolve(ents, next_id, custom, entity, ner_label, book_quote) ==
    LET i == Get(ents, entity)
        j == FuzzyIndex(ents, custom, entity)
    IN IF i # 0
       THEN [entities |-> [ents EXCEPT ![i] = CountUp(@)],
             entity_id |-> next_id, id |-> ents[i].id, branch |-> "exact"]
       ELSE IF j # 0
       THEN [entities |-> FuzzyMerge(ents, j, entity, ner_label),
             entity_id |-> next_id, id |-> ents[j].id, branch |-> "fuzzy"]
       ELSE [entities |-> Append(ents,
                             NewRecord(entity, next_id, ner_label, book_quote)),
             entity_id |-> next_id + 1, id |-> next_id, branch |-> "new"]

add_entity(entity, ner_label, book_quote, start, end, xhtml_path, origin_entity) ==
    /\ pc = "scan"
    /\ LET r == Resolve(entities, entity_id, custom_x_ray, entity, ner_label,
                        book_quote)
       IN /\ entities' = r.entities
          /\ entity_id' = r.entity_id
          /\ entity_occurrences' =
                 [entity_occurrences EXCEPT ![xhtml_path] =
                     Append(@, <<start, end, origin_entity, EntityRef(r.id)>>)]
    /\ UNCHANGED <<removed_entity_ids, custom_x_ray, lemmas, lemma_id,
                   mediawiki, prefs, lang, x_ray_xhtml, word_wise_xhtml,
                   new_xhtml, pc, job>>

\* ------------------------------------------------------------- add_lemma
\* an add_lemma that takes a new id on every call
RegisterLemma_EveryCall(lems, next_id, lemma) ==
    [lemmas |-> IF Get(lems, lemma) = 0
                THEN Append(lems, [name |-> lemma, id |-> next_id])
                ELSE [lems EXCEPT ![Get(lems, lemma)].id = next_id],
     lemma_id |-> next_id + 1]

\* self.lemmas after epub.py:167-169
RegisterLemma(lems, next_id, lemma) ==
    IF Get(lems, lemma) = 0
    THEN [lemmas |-> Append(lems, [name |-> lemma, id |-> next_id]),
          lemma_id |-> next_id + 1]
    ELSE [lemmas |-> lems, lemma_id |-> next_id]

add_lemma(lemma, start, end, xhtml_path, origin_text) ==
    /\ pc = "scan"
    /\ entity_occurrences' =
           [entity_occurrences EXCEPT ![xhtml_path] =
               Append(@, <<start, end, origin_text, LemmaRef(lemma)>>)]
    /\ LET r == RegisterLemma(lemmas, lemma_id, lemma)
       IN /\ lemmas' = r.lemmas
          /\ lemma_id' = r.lemma_id
    /\ UNCHANGED <<entity_id, entities, removed_entity_ids, custom_x_ray,
                   mediawiki, prefs, lang, x_ray_xhtml, word_wise_xhtml,
                   new_xhtml, pc, job>>

\* ------------------------------------------------------- remove_entities
\* a test that also removes a record whose count equals the minimum
Removable_AtMinimum(data, minimal_count, cache, custom) ==
    /\ data.count <= minimal_count
    /\ data.name \notin cache
    /\ data.name \notin DOMAIN custom

\* the test of epub.py:173-177 on one record
Removable(data, minimal_count, cache, custom) ==
    /\ data.count < minimal_count
    /\ data.name \notin cache
    /\ data.name \notin DOMAIN custom

\* the keys a dict keeps, in their order
RECURSIVE DictFilter(_, _)
DictFilter(d, keep) ==
    IF d = <<>> THEN <<>>
    ELSE IF Len(d) \in keep
         THEN Append(DictFilter(SubSeq(d, 1, Len(d) - 1), keep), d[Len(d)])
         ELSE DictFilter(SubSeq(d, 1, Len(d) - 1), keep \ {Len(d)})

\* self.entities and self.removed_entity_ids after remove_entities
remove_entities(ents, removed, minimal_count, cache, custom) ==
    LET gone == {i \in 1..Len(ents) :
                    Removable(ents[i], minimal_count, cache, custom)}
    IN [entities |-> DictFilter(ents, (1..Len(ents)) \ gone),
        removed_entity_ids |-> removed \cup {ents[i].id : i \in gone}]

\* the pruning of modify_epub, epub.py:186-187
Prune(ents, removed, minimal_count, cache, custom) ==
    IF minimal_count > 1
    THEN remove_entities(ents, removed, minimal_count, cache, custom)
    ELSE [entities |-> ents, removed_entity_ids |-> removed]

\* ------------------------------------------------ create_x_ray_footnotes
\* the aside of one entity, epub.py:253-291
Aside(data, search_people, cache, custom) ==
    IF data.name \in DOMAIN custom /\ custom[data.name] # ""
    THEN [id |-> data.id, from |-> "custom"]
    ELSE IF (search_people \/ data.label \notin PERSON_LABELS)
            /\ data.name \in cache
         THEN [id |-> data.id, from |-> "mediawiki"]
         ELSE [id |-> data.id, from |-> "quote"]

\* the asides of x_ray.xhtml, one per key of self.entities in dict order
create_x_ray_footnotes(ents, search_people, cache, custom) ==
    [written |-> TRUE,
     body |-> [i \in 1..Len(ents) |->
                  Aside(ents[i], search_people, cache, custom)],
     css |-> FALSE]

\* ------------------------------------------- create_word_wise_footnotes
create_word_wise_footnotes(lems) ==
    [written |-> TRUE,
     body |-> [i \in 1..Len(lems) |-> [id |-> lems[i].id, from |-> lems[i].name]],
     css |-> FALSE]

\* --------------------------------------------------- build_word_wise_tag
CJK_LANGS == {"zh", "ja", "ko"}

\* the short gloss get_lemma_gloss returns first
ShortDef(word, language) ==
    CASE word = "be" /\ language \notin CJK_LANGS -> "exists"
      [] word = "go" /\ language \notin CJK_LANGS -> "moves"
      [] word = "be" /\ language \in CJK_LANGS -> "to be there"
      [] word = "go" /\ language \in CJK_LANGS -> "to move on"

\* twice the len_ratio of epub.py:232, so that 2.5 stays an integer
len_ratio_x2(language) == IF language \in CJK_LANGS THEN 10 ELSE 5

\* len(short_def) / len(word) > len_ratio, epub.py:234
GlossTooLong(word, origin_word, language) ==
    2 * Len(ShortDef(word, language)) > len_ratio_x2(language) * Len(word)

\* one piece of the rewritten text: a copied character or an inserted tag
Char(c) == [tag |-> "char", id |-> c, text |-> <<>>, rt |-> ""]
XRayTag(id, text) == [tag |-> "x_ray", id |-> id, text |-> text, rt |-> ""]

build_word_wise_tag(word, origin_word, language, lems) ==
    LET word_id == lems[Get(lems, word)].id
    IN IF GlossTooLong(word, origin_word, language)
       THEN [tag |-> "word_wise", id |-> word_id, text |-> origin_word,
             rt |-> ""]
       ELSE [tag |-> "ruby", id |-> word_id, text |-> origin_word,
             rt |-> ShortDef(word, language)]

\* ------------------------------------------------ insert_anchor_elements
\* sorted(entity_list, key=lambda x: x[0]): stable, ascending start
RECURSIVE Sorted(_)
Sorted(list) ==
    IF list = <<>> THEN <<>>
    ELSE LET rest == Sorted(SubSeq(list, 1, Len(list) - 1))
             x == list[Len(list)]
             k == Cardinality({i \in 1..Len(rest) : rest[i][1] <= x[1]})
         IN SubSeq(rest, 1, k) \o <<x>> \o SubSeq(rest, k + 1, Len(rest))

\* a loop that walks the occurrence list as it was appended
WalkList_NeverSorts(entity_list, ents, lems) == entity_list

\* the list the loop of epub.py:204 walks
WalkList(entity_list, ents, lems) ==
    IF ents # <<>> /\ lems # <<>> THEN Sorted(entity_list) ELSE entity_list

\* the copied characters of a slice of the text
Chars(s) == [i \in 1..Len(s) |-> Char(s[i])]

\* the tag of one occurrence, epub.py:208-211
Markup(span, language, lems) ==
    IF span[4].isint
    THEN XRayTag(span[4].n, span[3])
    ELSE build_word_wise_tag(span[4].s, span[3], language, lems)

\* a loop that never skips a span
Suppressed_Never(span, removed) == FALSE

\* entity_id in self.removed_entity_ids
Suppressed(span, removed) == span[4].isint /\ span[4].n \in removed

\* a cursor that is not moved past the replaced span
NextLastEnd_Start(start, end) == start

\* last_end after one span, epub.py:212
NextLastEnd(start, end) == end

\* the loop of epub.py:204-212 from position k of the list on, and the tail
\* of epub.py:213
RECURSIVE Walk(_, _, _, _, _, _, _)
Walk(str, list, k, last_end, removed, language, lems) ==
    IF k > Len(list)
    THEN Chars(Slice(str, last_end, None))
    ELSE IF Suppressed(list[k], removed)
         THEN Walk(str, list, k + 1, last_end, removed, language, lems)
         ELSE Chars(Slice(str, last_end, list[k][1]))
              \o <<Markup(list[k], language, lems)>>
              \o Walk(str, list, k + 1, NextLastEnd(list[k][1], list[k][2]),
                      removed, language, lems)

\* the text written for one part, epub.py:196-228
insert_anchor_elements(xhtml_path, entity_list, ents, lems, removed, language) ==
    [written |-> TRUE,
     body |-> Walk(xhtml_str(xhtml_path), WalkList(entity_list, ents, lems),
                   1, 0, removed, language, lems),
     css |-> lems # <<>>]

\* ----------------------------------------------------------- modify_epub
\* query_mediawiki: the cache now answers for the fetched keys of the table
query_mediawiki(ents, cache, fetched) ==
    cache \cup {n \in fetched : Get(ents, n) # 0}

modify_epub(new_prefs, language, fetched) ==
    /\ pc = "scan"
    /\ LET cache == IF entities # <<>>
                    THEN query_mediawiki(entities, mediawiki, fetched)
                    ELSE mediawiki
           pruned == IF entities # <<>>
                     THEN Prune(entities, removed_entity_ids,
                                new_prefs.minimal_x_ray_count, cache,
                                custom_x_ray)
                     ELSE [entities |-> entities,
                           removed_entity_ids |-> removed_entity_ids]
       IN /\ mediawiki' = cache
          /\ entities' = pruned.entities
          /\ removed_entity_ids' = pruned.removed_entity_ids
          /\ x_ray_xhtml' =
                 IF entities # <<>>
                 THEN create_x_ray_footnotes(pruned.entities,
                          new_prefs.search_people, cache, custom_x_ray)
                 ELSE x_ray_xhtml
          /\ new_xhtml' =
                 [p \in Paths |->
                     IF entity_occurrences[p] # <<>>
                     THEN insert_anchor_elements(p, entity_occurrences[p],
                              pruned.entities, lemmas,
                              pruned.removed_entity_ids, language)
                     ELSE new_xhtml[p]]
          /\ word_wise_xhtml' =
                 IF lemmas # <<>>
                 THEN create_word_wise_footnotes(lemmas)
                 ELSE word_wise_xhtml
    /\ prefs' = new_prefs
    /\ lang' = language
    /\ pc' = "done"
    /\ UNCHANGED <<entity_id, entity_occurrences, custom_x_ray, lemmas,
                   lemma_id, job>>

\* ------------------------------------------------------- the scan's input
\* the spans one part's text holds
Starts(xhtml_path) == 0..(Len(xhtml_str(xhtml_path)) - 1)
EndsOf(xhtml_path, start) == (start + 1)..Len(xhtml_str(xhtml_path))

SpanCount == Len(entity_occurrences["ch1.xhtml"])
             + Len(entity_occurrences["ch2.xhtml"])

\* the parts are scanned one after the other
PartNo(xhtml_path) == IF xhtml_path = "ch1.xhtml" THEN 1 ELSE 2

Current(xhtml_path) ==
    \A q \in Paths :
        entity_occurrences[q] # <<>> => PartNo(q) <= PartNo(xhtml_path)

\* a producer appends its spans in scan order, and no two spans of a part
\* overlap (the precondition of the splicer)
InScanOrder(list, isint, start, end) ==
    \A i \in 1..Len(list) :
        /\ list[i][2] <= start \/ end <= list[i][1]
        /\ list[i][4].isint = isint => list[i][2] <= start

\* the sentence a mention is found in
Sentence(entity, xhtml_path, start) ==
    [of |-> entity, xhtml_path |-> xhtml_path, at |-> start]

ScanEntity ==
    \E m \in Mentions, p \in Paths :
        \E start \in Starts(p), end \in 1..Len(xhtml_str(p)) :
            /\ end \in EndsOf(p, start)
            /\ SpanCount < MaxSpans
            /\ Current(p)
            /\ InScanOrder(entity_occurrences[p], TRUE, start, end)
            /\ add_entity(m[1], m[2], Sentence(m[1], p, start),
                          start, end, p, Slice(xhtml_str(p), start, end))

ScanLemma ==
    \E lemma \in LemmaWords, p \in Paths :
        \E start \in Starts(p), end \in 1..Len(xhtml_str(p)) :
            /\ end \in EndsOf(p, start)
            /\ SpanCount < MaxSpans
            /\ Current(p)
            /\ InScanOrder(entity_occurrences[p], FALSE, start, end)
            /\ add_lemma(lemma, start, end, p, Slice(xhtml_str(p), start, end))

Finish ==
    \E new_prefs \in PrefsSet, language \in Langs, fetched \in SUBSET Cacheable :
        modify_epub(new_prefs, language, fetched)

Next == ScanEntity \/ ScanLemma \/ Finish

Spec == Init /\ [][Next]_vars

\* ------------------------------------------- a scan with unchecked spans
\* add_entity and add_lemma take whatever offsets the caller hands over:
\* an end beyond the text, an end of None, spans that overlap or come out
\* of order
MaxAnySpans == 2    \* add_entity / add_lemma calls of such a run

AnyEnds(xhtml_path, start) ==
    {None} \cup ((start + 1)..(Len(xhtml_str(xhtml_path)) + 1))

\* the text the caller found at the span
OriginText(xhtml_path, start, end) ==
    IF end = None
    THEN Slice(xhtml_str(xhtml_path), start, start + 1)
    ELSE Slice(xhtml_str(xhtml_path), start, end)

ScanAnyEntity ==
    \E m \in Mentions, p \in Paths :
        \E start \in Starts(p), end \in -1..(Len(xhtml_str(p)) + 1) :
            /\ end \in AnyEnds(p, start)
            /\ SpanCount < MaxAnySpans
            /\ Current(p)
            /\ add_entity(m[1], m[2], Sentence(m[1], p, start),
                          start, end, p, OriginText(p, start, end))

ScanAnyLemma ==
    \E lemma \in LemmaWords, p \in Paths :
        \E start \in Starts(p), end \in -1..(Len(xhtml_str(p)) + 1) :
            /\ end \in AnyEnds(p, start)
            /\ SpanCount < MaxAnySpans
            /\ Current(p)
            /\ add_lemma(lemma, start, end, p, OriginText(p, start, end))

NextAny == ScanAnyEntity \/ ScanAnyLemma \/ Finish

SpecAny == Init /\ [][NextAny]_vars

\* =================================================================
\* Properties
\* =================================================================
Range(f) == {f[i] : i \in DOMAIN f}
IdsOf(table) == {table[i].id : i \in 1..Len(table)}
NamesOf(table) == {table[i].name : i \in 1..Len(table)}
AllOccurrences == UNION {Range(entity_occurrences[p]) : p \in Paths}
EntitySpans == {o \in AllOccurrences : o[4].isint}
LemmaSpans == {o \in AllOccurrences : ~o[4].isint}
OccurrenceIds == {o[4].n : o \in EntitySpans}
Last(list) == list[Len(list)]

\* some add_entity call with this name and label is the step taken
IsAddEntity(entity, ner_label, xhtml_path) ==
    /\ pc = "scan"
    /\ Len(entity_occurrences'[xhtml_path])
           = Len(entity_occurrences[xhtml_path]) + 1
    /\ LET o == Last(entity_occurrences'[xhtml_path])
       IN /\ o[4].isint
          /\ add_entity(entity, ner_label,
                        Sentence(entity, xhtml_path, o[1]),
                        o[1], o[2], xhtml_path, o[3])

\* every record of the old table but the one at position j is a record of
\* the new table
OthersUnchanged(j) ==
    \A k \in 1..Len(entities) :
        k # j => \E n \in 1..Len(entities') : entities'[n] = entities[k]

\* C1: the entity ids of the table and of the occurrence index are exactly
\* 0 .. k-1 for k records created: the ids of the occurrences are
\* 0 .. entity_id-1, the table holds each of them once until pruning and
\* afterwards the ones not removed, a step consumes an id only by creating
\* a record for a name with neither an exact nor an accepted fuzzy match,
\* the id it hands out is the next one in order, and the counter never
\* goes back, so no id is given out twice.
C1_IdsState ==
    /\ OccurrenceIds = 0..(entity_id - 1)
    /\ IdsOf(entities) \cup removed_entity_ids = 0..(entity_id - 1)
    /\ IdsOf(entities) \cap removed_entity_ids = {}
    /\ pc = "scan" => removed_entity_ids = {}
    /\ \A i, j \in 1..Len(entities) : entities[i].id = entities[j].id => i = j

C1_IdsStep ==
    /\ entity_id' >= entity_id
    /\ OccurrenceIds \subseteq OccurrenceIds'
    /\ entity_id' # entity_id =>
          /\ entity_id' = entity_id + 1
          /\ Len(entities') = Len(entities) + 1
          /\ SubSeq(entities', 1, Len(entities)) = entities
          /\ Last(entities').id = entity_id
          /\ Last(entities').count = 1
          /\ Get(entities, Last(entities').name) = 0
          /\ \/ Last(entities').name \in DOMAIN custom_x_ray
             \/ \A i \in 1..Len(entities) :
                   token_set_ratio(Last(entities').name, entities[i].name)
                       < FUZZ_THRESHOLD
          /\ OccurrenceIds' = OccurrenceIds \cup {entity_id}
    /\ Len(entities') > Len(entities) => entity_id' = entity_id + 1

C1_EntityIds == [](C1_IdsState) /\ [][C1_IdsStep]_vars

\* C1 witness: a finished run with three ids, one of them removed by the
\* pruning pass.
C1_Witness ==
    /\ pc = "done"
    /\ entity_id = 3
    /\ removed_entity_ids # {}
    /\ entities # <<>>

\* C2: a call whose name is a key of the table, or is not pinned and has a
\* fuzzy match at or above the threshold, records the occurrence with the
\* matched record's id, adds exactly 1 to that record's count, consumes no
\* id and leaves every other record as it was; a pinned name that is no key
\* gets a new record, whatever it fuzzy-matches.
C2_Step(entity, ner_label, xhtml_path) ==
    LET i == Get(entities, entity)
        close == {k \in 1..Len(entities) :
                     token_set_ratio(entity, entities[k].name) >= FUZZ_THRESHOLD}
        occ == Last(entity_occurrences'[xhtml_path])
    IN /\ i # 0 =>
            /\ occ[4] = EntityRef(entities[i].id)
            /\ entity_id' = entity_id
            /\ entities' = [entities EXCEPT ![i].count = entities[i].count + 1]
       /\ (i = 0 /\ entity \notin DOMAIN custom_x_ray /\ close # {}) =>
            \E j \in close :
                /\ occ[4] = EntityRef(entities[j].id)
                /\ entity_id' = entity_id
                /\ Len(entities') = Len(entities)
                /\ \E n \in 1..Len(entities') :
                      /\ entities'[n].id = entities[j].id
                      /\ entities'[n].count = entities[j].count + 1
                /\ OthersUnchanged(j)
       /\ (i = 0 /\ entity \in DOMAIN custom_x_ray) =>
            /\ occ[4] = EntityRef(entity_id)
            /\ entity_id' = entity_id + 1
            /\ entities' = Append(entities,
                   [name |-> entity, id |-> entity_id, label |-> ner_label,
                    quote |-> Last(entities').quote, count |-> 1])

C2_MergeKeepsOthers ==
    [][\A m \in Mentions, p \in Paths :
          IsAddEntity(m[1], m[2], p) => C2_Step(m[1], m[2], p)]_vars

\* C2 witness: a record merged a second mention, and the pinned name
\* "John Smith" got a record of its own although "John" was in the table.
C2_Witness ==
    /\ "John Smith" \in DOMAIN custom_x_ray
    /\ {"John", "John Smith"} \subseteq NamesOf(entities)
    /\ \E i \in 1..Len(entities) : entities[i].count >= 2

\* C3: an accepted fuzzy match with a fuller name replaces the key of the
\* matched record by the new name (old key gone, table size kept) and the
\* record keeps id, label and quote with its count one higher; when the
\* name is not fuller the keys stay as they are and the record, same id,
\* has its count one higher.
C3_Step(entity, ner_label) ==
    LET close == {k \in 1..Len(entities) :
                     token_set_ratio(entity, entities[k].name) >= FUZZ_THRESHOLD}
    IN (Get(entities, entity) = 0 /\ entity \notin DOMAIN custom_x_ray
        /\ close # {}) =>
          \E j \in close :
              LET old == entities[j]
                  fuller == is_full_name(old.name, old.label, entity, ner_label)
              IN /\ Len(entities') = Len(entities)
                 /\ fuller =>
                       /\ NamesOf(entities')
                              = (NamesOf(entities) \ {old.name}) \cup {entity}
                       /\ old.name \notin NamesOf(entities')
                       /\ [old EXCEPT !.name = entity, !.count = old.count + 1]
                              \in Range(entities')
                 /\ ~fuller =>
                       /\ NamesOf(entities') = NamesOf(entities)
                       /\ entities' = [entities EXCEPT
                                          ![j].count = old.count + 1]

C3_Promotion ==
    [][\A m \in Mentions, p \in Paths :
          IsAddEntity(m[1], m[2], p) => C3_Step(m[1], m[2])]_vars

\* C3 witness: the record first created for "John" now has the key
\* "John Smith", its first label and quote, and a count of 2 or more.
C3_Witness ==
    \E i \in 1..Len(entities) :
        /\ entities[i].name = "John Smith"
        /\ entities[i].quote.of = "John"
        /\ entities[i].label = "PERSON"
        /\ entities[i].count >= 2

\* C10: add_lemma changes the lemma table and the counter only for a lemma
\* that is not yet a key, which gets the next id; any call appends exactly
\* one occurrence; the ids of the table are 0 .. m-1 for m lemmas, in the
\* order the lemmas first occurred.
C10_State ==
    /\ Len(lemmas) = lemma_id
    /\ \A i \in 1..Len(lemmas) : lemmas[i].id = i - 1
    /\ \A i, j \in 1..Len(lemmas) : lemmas[i].name = lemmas[j].name => i = j
    /\ NamesOf(lemmas) = {o[4].s : o \in LemmaSpans}

C10_Step(lemma, xhtml_path) ==
    /\ Len(entity_occurrences'[xhtml_path])
           = Len(entity_occurrences[xhtml_path]) + 1
    /\ Last(entity_occurrences'[xhtml_path])[4] = LemmaRef(lemma)
    /\ lemma \in NamesOf(lemmas) => (lemmas' = lemmas /\ lemma_id' = lemma_id)
    /\ lemma \notin NamesOf(lemmas) =>
          /\ lemmas' = Append(lemmas, [name |-> lemma, id |-> lemma_id])
          /\ lemma_id' = lemma_id + 1

\* some add_lemma call with this lemma is the step taken
IsAddLemma(lemma, xhtml_path) ==
    /\ pc = "scan"
    /\ Len(entity_occurrences'[xhtml_path])
           = Len(entity_occurrences[xhtml_path]) + 1
    /\ LET o == Last(entity_occurrences'[xhtml_path])
       IN add_lemma(lemma, o[1], o[2], xhtml_path, o[3])

C10_LemmaIdempotent ==
    /\ [](C10_State)
    /\ [][\A w \in LemmaWords, p \in Paths :
             IsAddLemma(w, p) => C10_Step(w, p)]_vars

\* C10 witness: two lemmas, one of them registered by two calls.
C10_Witness ==
    /\ lemma_id = 2
    /\ Cardinality(LemmaSpans) = 3

\* ---------------------------------------------------------------- pruning
\* the step is the modify_epub call
IsModifyEpub == pc = "scan" /\ pc' = "done"

\* C4: the pruning pass suppresses exactly the ids of the records whose
\* count is below the minimum and whose name is neither pinned nor cached;
\* a record at or above the minimum is never suppressed; a minimum of 1 or
\* less suppresses nothing.
C4_Step ==
    LET min == prefs'.minimal_x_ray_count
        low == {i \in 1..Len(entities) :
                   /\ entities[i].count < min
                   /\ entities[i].name \notin DOMAIN custom_x_ray
                   /\ entities[i].name \notin mediawiki'}
    IN /\ removed_entity_ids' = {entities[i].id : i \in low}
       /\ \A i \in 1..Len(entities) :
             entities[i].count >= min =>
                 entities[i].id \notin removed_entity_ids'
       /\ min <= 1 => removed_entity_ids' = {}
       /\ Range(entities') = {entities[i] : i \in (1..Len(entities)) \ low}

C4_PruneExactly == [][IsModifyEpub => C4_Step]_vars

\* C4 witness: a finished run that suppressed an id and kept a record whose
\* count is below the minimum.
C4_Witness ==
    /\ pc = "done"
    /\ removed_entity_ids # {}
    /\ \E i \in 1..Len(entities) :
          entities[i].count < prefs.minimal_x_ray_count

\* --------------------------------------------------------------- splicing
LiveSpans(xhtml_path) ==
    {o \in Range(entity_occurrences[xhtml_path]) :
        ~(o[4].isint /\ o[4].n \in removed_entity_ids)}
DeadSpans(xhtml_path) ==
    Range(entity_occurrences[xhtml_path]) \ LiveSpans(xhtml_path)

\* the characters of [start, end) stand in the text, next to each other
LeftAsIs(body, start, end) ==
    \E k \in 0..Len(body) :
        \A t \in 0..(end - start - 1) :
            k + t + 1 <= Len(body) /\ body[k + t + 1] = Char(start + t)

\* a text with the tags of the suppressed ids replaced by what they wrap
RECURSIVE Unmark(_, _)
Unmark(body, removed) ==
    IF body = <<>> THEN <<>>
    ELSE (IF body[1].tag = "x_ray" /\ body[1].id \in removed
          THEN Chars(body[1].text)
          ELSE <<body[1]>>) \o Unmark(Tail(body), removed)

\* C5: after the run a suppressed id has no tag in any part, the text of
\* each of its occurrences is in the part as in the original, and it has no
\* aside in x_ray.xhtml; the tags and asides of the other ids are the ones
\* a run without pruning writes; the suppression set is computed in the
\* modify_epub step, after the scan, and no part is written before it.
C5_State ==
    /\ pc = "scan" =>
          /\ removed_entity_ids = {}
          /\ \A p \in Paths : ~new_xhtml[p].written
    /\ pc = "done" =>
          /\ \A p \in Paths :
                /\ new_xhtml[p].written <=> entity_occurrences[p] # <<>>
                /\ \A k \in 1..Len(new_xhtml[p].body) :
                      new_xhtml[p].body[k].tag = "x_ray" =>
                          new_xhtml[p].body[k].id \notin removed_entity_ids
                /\ \A o \in DeadSpans(p) :
                      LeftAsIs(new_xhtml[p].body, o[1], o[2])
                /\ \A o \in LiveSpans(p) :
                      Cardinality({k \in 1..Len(new_xhtml[p].body) :
                          new_xhtml[p].body[k]
                              = Markup(o, lang, lemmas)}) = 1
          /\ \A k \in 1..Len(x_ray_xhtml.body) :
                x_ray_xhtml.body[k].id \notin removed_entity_ids

C5_Step ==
    /\ removed_entity_ids' # removed_entity_ids => IsModifyEpub
    /\ IsModifyEpub =>
          LET cache == mediawiki'
              removed == removed_entity_ids'
              unpruned == create_x_ray_footnotes(entities,
                              prefs'.search_people, cache, custom_x_ray)
          IN /\ \A p \in Paths :
                    entity_occurrences[p] # <<>> =>
                        new_xhtml'[p].body =
                            Unmark(insert_anchor_elements(p,
                                       entity_occurrences[p], entities,
                                       lemmas, {}, lang').body, removed)
             /\ entities # <<>> =>
                    x_ray_xhtml'.body =
                        SelectSeq(unpruned.body,
                                  LAMBDA a : a.id \notin removed)

C5_SuppressedUntouched == [](C5_State) /\ [][C5_Step]_vars

\* C5 witness: a finished part holds an occurrence of a suppressed id, an
\* occurrence of an entity that was kept and a lemma.
C5_Witness ==
    /\ pc = "done"
    /\ \E p \in Paths :
          /\ DeadSpans(p) # {}
          /\ \E o \in LiveSpans(p) : o[4].isint
          /\ \E o \in LiveSpans(p) : ~o[4].isint

\* the text with every span of the set replaced by its tag: position by
\* position, the tag at a span's start, nothing inside a span, the
\* original character elsewhere
RECURSIVE Replaced(_, _, _, _, _)
Replaced(str, spans, from, language, lems) ==
    IF from >= Len(str) THEN <<>>
    ELSE (IF \E o \in spans : o[1] = from
          THEN <<Markup(CHOOSE o \in spans : o[1] = from, language, lems)>>
          ELSE IF \E o \in spans : o[1] < from /\ from < o[2]
               THEN <<>>
               ELSE <<Char(str[from + 1])>>)
         \o Replaced(str, spans, from + 1, language, lems)

\* the spans not suppressed, in the order of the occurrence list
LiveList(xhtml_path) ==
    SelectSeq(entity_occurrences[xhtml_path],
              LAMBDA o : ~(o[4].isint /\ o[4].n \in removed_entity_ids))

\* sorted by start, pairwise non-overlapping, inside the text
SplicerPrecondition(xhtml_path) ==
    LET live == LiveList(xhtml_path)
    IN /\ \A i \in 1..Len(live) :
             /\ live[i][2] # None
             /\ 0 <= live[i][1] /\ live[i][1] < live[i][2]
             /\ live[i][2] <= Len(xhtml_str(xhtml_path))
       /\ \A i, j \in 1..Len(live) : i < j => live[i][2] <= live[j][1]

FaultySpans(xhtml_path) ==
    LET proper == {o \in LiveSpans(xhtml_path) :
                      o[2] # None /\ o[1] < o[2]}
    IN \/ \E o \in proper : o[2] > Len(xhtml_str(xhtml_path))
       \/ \E o1, o2 \in proper :
             o1 # o2 /\ o1[1] <= o2[1] /\ o2[1] < o1[2]

\* every character of the text outside the replaced spans is written once
NothingLostOrRepeated(xhtml_path) ==
    \A c \in 0..(Len(xhtml_str(xhtml_path)) - 1) :
        (\A o \in LiveSpans(xhtml_path) :
             o[2] # None /\ ~(o[1] <= c /\ c < o[2])) =>
            Cardinality({k \in 1..Len(new_xhtml[xhtml_path].body) :
                new_xhtml[xhtml_path].body[k] = Char(c)}) = 1

\* C7: a part with a span outside its text, or with a span that starts
\* below the end of another span, is not written (splicing fails), and no
\* written part has original text duplicated or dropped.
C7_FaultySpanFails ==
    pc = "done" =>
        \A p \in Paths :
            /\ FaultySpans(p) => ~new_xhtml[p].written
            /\ new_xhtml[p].written => NothingLostOrRepeated(p)

\* C8: x_ray.xhtml lists the surviving entities in ascending id order, one
\* aside for each.
C8_FootnotesInIdOrder ==
    (pc = "done" /\ x_ray_xhtml.written) =>
        /\ Len(x_ray_xhtml.body) = Len(entities)
        /\ {x_ray_xhtml.body[k].id : k \in 1..Len(x_ray_xhtml.body)}
               = IdsOf(entities)
        /\ \A i, j \in 1..Len(x_ray_xhtml.body) :
              i < j => x_ray_xhtml.body[i].id < x_ray_xhtml.body[j].id

\* C9: a lemma occurrence gets the plain reference exactly when the length
\* of the short gloss over the length of the word as it stands in the text
\* exceeds the threshold of the language (5 for CJK, 2.5 otherwise), the
\* reference with the inline gloss otherwise; both link to the lemma's id.
C9_GlossByOriginWord ==
    pc = "done" =>
        \A p \in Paths :
            \A o \in {x \in Range(entity_occurrences[p]) : ~x[4].isint} :
                \E k \in 1..Len(new_xhtml[p].body) :
                    LET item == new_xhtml[p].body[k]
                    IN /\ item.tag \in {"word_wise", "ruby"}
                       /\ item.text = o[3]
                       /\ item.id = lemmas[Get(lemmas, o[4].s)].id
                       /\ item.tag = "word_wise" <=>
                              2 * Len(ShortDef(o[4].s, lang))
                                  > len_ratio_x2(lang) * Len(o[3])

\* ------------------------------------------------------- spans without end
\* where the cursor is to stand after a span: its end, or its start plus
\* the length of its display text when it has no end
EffectiveEnd(o) == IF o[2] = None THEN o[1] + Len(o[3]) ELSE o[2]

WithEffectiveEnd(o) == <<o[1], EffectiveEnd(o), o[3], o[4]>>

\* the non-suppressed spans, taken with their effective ends, are sorted,
\* pairwise non-overlapping and inside the text
EffectivePrecondition(xhtml_path) ==
    LET live == LiveList(xhtml_path)
    IN /\ \A i \in 1..Len(live) :
             /\ live[i][1] < EffectiveEnd(live[i])
             /\ EffectiveEnd(live[i]) <= Len(xhtml_str(xhtml_path))
       /\ \A i, j \in 1..Len(live) :
             i < j => EffectiveEnd(live[i]) <= live[j][1]

\* C11: a non-suppressed span without an end wraps exactly its display text
\* and moves the cursor to start + length of the display text: a part with
\* such a span is written as the original text with each span, taken up to
\* its effective end, replaced by its tag, nothing twice and nothing
\* skipped.
C11_NoEndAdvancesCursor ==
    pc = "done" =>
        \A p \in Paths :
            (/\ \E o \in LiveSpans(p) : o[2] = None
             /\ EffectivePrecondition(p)) =>
                new_xhtml[p].body =
                    Replaced(xhtml_str(p),
                             {WithEffectiveEnd(o) : o \in LiveSpans(p)},
                             0, lang, lemmas)

\* --------------------------------------------------------- order of visit
\* ascending start
Ascending(list) ==
    \A i, j \in 1..Len(list) : i < j => list[i][1] < list[j][1]

\* the tags of a written text, in the order they were emitted
TagsOf(body) == SelectSeq(body, LAMBDA e : e.tag # "char")

\* the start of the span a tag replaces: the offset of the first character
\* it wraps
StartsVisited(body) ==
    [i \in 1..Len(TagsOf(body)) |-> <<TagsOf(body)[i].text[1]>>]

\* C12: in every run the spans replaced in a part are visited in ascending
\* start order: every non-suppressed span gets its tag, the tags are
\* emitted in ascending start order, and when the sort is skipped (the
\* entity table or the lemma table is empty at splice time) the
\* non-suppressed spans are ascending as they stand in the list, also when
\* pruning has emptied the entity table.
C12_VisitedAscending ==
    pc = "done" =>
        \A p \in Paths :
            new_xhtml[p].written =>
                /\ Len(TagsOf(new_xhtml[p].body)) = Len(LiveList(p))
                /\ Ascending(StartsVisited(new_xhtml[p].body))
                /\ (entities = <<>> \/ lemmas = <<>>) =>
                       Ascending(LiveList(p))

\* C12 witness: pruning emptied the entity table, and a part whose list is
\* not ascending holds a suppressed entity span between two lemma spans.
C12_Witness ==
    /\ pc = "done"
    /\ entities = <<>>
    /\ lemmas # <<>>
    /\ new_xhtml["ch1.xhtml"].written
    /\ ~Ascending(entity_occurrences["ch1.xhtml"])
    /\ \E d \in DeadSpans("ch1.xhtml") :
          \E l1, l2 \in LiveSpans("ch1.xhtml") :
              l1[1] < d[1] /\ d[1] < l2[1]

\* ------------------------------------------- table against occurrence index
\* the places of the occurrence index, over all parts, that carry the id
CarriedBy(id) ==
    {pi \in UNION {{<<p, i>> : i \in 1..Len(entity_occurrences[p])} :
                   p \in Paths} :
        LET o == entity_occurrences[pi[1]][pi[2]]
        IN o[4].isint /\ o[4].n = id}

\* C14: at every point of the scan, before pruning, each id assigned so far
\* is held by exactly one record of the entity table, every entity
\* occurrence carries the id of a record (also after a promotion renamed
\* the key), and each record's count is the number of occurrences, over
\* all parts, that carry its id, so at least 1.
C14_ScanConsistent ==
    pc = "scan" =>
        /\ \A id \in 0..(entity_id - 1) :
               Cardinality({i \in 1..Len(entities) : entities[i].id = id}) = 1
        /\ IdsOf(entities) \subseteq 0..(entity_id - 1)
        /\ OccurrenceIds \subseteq IdsOf(entities)
        /\ \A i \in 1..Len(entities) :
               /\ entities[i].count = Cardinality(CarriedBy(entities[i].id))
               /\ entities[i].count >= 1

\* C14 witness: during the scan, a record renamed by promotion carries two
\* occurrences, one in each part, next to a second record.
C14_Witness ==
    /\ pc = "scan"
    /\ entity_id = 2
    /\ \E i \in 1..Len(entities) :
          /\ entities[i].name = "John Smith"
          /\ entities[i].quote.of = "John"
          /\ entities[i].count = 2
          /\ \A p \in Paths : \E pi \in CarriedBy(entities[i].id) : pi[1] = p

\* =================================================================
\* parse_job.py: the offsets of lemmas and named entities
\* =================================================================
MaxTextLen == 4
MaxMatches == 2

\* the characters of a fragment: a letter, a space, and a letter that
\* takes two bytes in UTF-8
Alphabet == {"a", " ", "é"}
Utf8Len(c) == IF c = "é" THEN 2 ELSE 1
\* \w of a str pattern
IsWord(c) == c # " "

\* s.encode('utf-8'): the bytes of each character, in order
RECURSIVE encode(_)
encode(s) ==
    IF s = <<>> THEN <<>>
    ELSE encode(SubSeq(s, 1, Len(s) - 1))
         \o [k \in 1..Utf8Len(s[Len(s)]) |-> [of |-> s[Len(s)], byte |-> k]]

\* the fragments parse_book yields: a text and its offset in the book
Texts == UNION {[1..n -> Alphabet] : n \in 1..MaxTextLen}
FragmentStarts == {5}
JobLangs == {"en", "fr"}
EntLabels == {"PERSON", "DATE"}

\* up to n spans (token_start, token_end) of the text, one after another
RECURSIVE SpansFrom(_, _, _)
SpansFrom(text, from, n) ==
    {<<>>} \cup
    (IF n = 0 THEN {}
     ELSE UNION {{<<<<a, b>>>> \o rest : rest \in SpansFrom(text, b, n - 1)} :
                 a \in from..(Len(text) - 1), b \in 1..Len(text)} \ {<<>>})

\* kw_processor.extract_keywords(text, span_info=True), without the data
Keywords(text) ==
    {kw \in SpansFrom(text, 0, MaxMatches) :
        \A k \in 1..Len(kw) : kw[k][1] < kw[k][2]}

\* doc.ents: spans of the text with a label
RECURSIVE Labelled(_)
Labelled(spans) ==
    IF spans = <<>> THEN {<<>>}
    ELSE {<<[start_char |-> spans[1][1], end_char |-> spans[1][2],
             label_ |-> l]>> \o rest :
          l \in EntLabels, rest \in Labelled(Tail(spans))}

Ents(text) == UNION {Labelled(kw) : kw \in Keywords(text)}

\* an index that counts characters whatever the format
LemmaIndex_Chars(start, text, token_start, is_kfx) == start + token_start

\* index of parse_job.py:105-108
LemmaIndex(start, text, token_start, is_kfx) ==
    IF is_kfx THEN start + token_start
    ELSE start + Len(encode(Slice(text, 0, token_start)))

\* end of parse_job.py:102 and 109-111
LemmaEnd(index, lemma, is_kfx) ==
    IF \E i \in 1..Len(lemma) : lemma[i] = " "
    THEN (IF is_kfx THEN index + Len(lemma) ELSE index + Len(encode(lemma)))
    ELSE None

\* the rows handed to insert_lemma, one per keyword
find_lemma(start, text, keywords, is_kfx) ==
    [k \in 1..Len(keywords) |->
        LET token_start == keywords[k][1]
            token_end == keywords[k][2]
            lemma == Slice(text, token_start, token_end)
            index == LemmaIndex(start, text, token_start, is_kfx)
        IN <<index, LemmaEnd(index, lemma, is_kfx)>>]

NER_LABELS ==
    {"EVENT", "FAC", "GPE", "LANGUAGE", "LAW", "LOC", "NORP", "ORG",
     "PERSON", "PRODUCT", "WORK_OF_ART", "MISC", "PER", "FACILITY",
     "ORGANIZATION", "NAT_REL_POL", "geogName", "orgName", "persName",
     "placeName"}

\* re.sub(r'^\W+', '', s)
RECURSIVE StripLeft(_)
StripLeft(s) ==
    IF s # <<>> /\ ~IsWord(s[1]) THEN StripLeft(Tail(s)) ELSE s

\* re.sub(r'\W+$', '', s)
RECURSIVE StripRight(_)
StripRight(s) ==
    IF s # <<>> /\ ~IsWord(s[Len(s)])
    THEN StripRight(SubSeq(s, 1, Len(s) - 1)) ELSE s

\* re.sub(r'^(?:the |an |a )', '', s, flags=re.IGNORECASE): of the three
\* articles only "a " can be written with the characters of Alphabet
StripArticle(s) ==
    IF Len(s) >= 2 /\ s[1] = "a" /\ s[2] = " "
    THEN SubSeq(s, 3, Len(s)) ELSE s

\* text of parse_job.py:131-137; no text over Alphabet starts with
\* "chapter" or ends with "'s"
EntText(ent_text, language) ==
    LET text == StripRight(StripLeft(ent_text))
    IN IF language = "en" THEN StripArticle(text) ELSE text

len_limit(language) == IF language = "en" THEN 3 ELSE 2

\* the tests that skip an entity, parse_job.py:128-129 and 139-140
Skipped(label_, text, language) ==
    \/ label_ \notin NER_LABELS
    \/ Len(text) < len_limit(language)
    \/ \A i \in 1..Len(text) : ~IsWord(text[i])

\* s.index(sub): the first place sub stands in s
index(s, sub) ==
    CHOOSE i \in 0..Len(s) :
        /\ Slice(s, i, i + Len(sub)) = sub
        /\ \A j \in 0..(i - 1) : Slice(s, j, j + Len(sub)) # sub

\* the arguments of x_ray.search for one entity, parse_job.py:142-151
EntityRow(start, language, doc, ent, is_kfx) ==
    LET ent_text == Slice(doc, ent.start_char, ent.end_char)
        text == EntText(ent_text, language)
        new_start_char == ent.start_char + index(ent_text, text)
    IN [text |-> text,
        is_person |-> ent.label_ \in PERSON_LABELS,
        ent_start |->
            IF is_kfx THEN start + Len(Slice(doc, 0, new_start_char))
            ELSE start + Len(encode(Slice(doc, 0, new_start_char))),
        ent_len |-> IF is_kfx THEN Len(text) ELSE Len(encode(text))]

\* the calls of x_ray.search, one per entity that is not skipped
find_named_entity(start, language, doc, ents, is_kfx) ==
    LET kept == SelectSeq(ents, LAMBDA ent :
                    ~Skipped(ent.label_,
                             EntText(Slice(doc, ent.start_char, ent.end_char),
                                     language),
                             language))
    IN [k \in 1..Len(kept) |->
           EntityRow(start, language, doc, kept[k], is_kfx)]

\* one fragment of a book, before either function has run on it
Jobs ==
    {[NoJob EXCEPT !.pc = "parsed", !.is_kfx = k, !.lang = l, !.start = st,
                   !.text = t] :
        k \in BOOLEAN, l \in JobLangs, st \in FragmentStarts, t \in Texts}

InitOffsets ==
    /\ entity_id = 0
    /\ entities = <<>>
    /\ entity_occurrences = [p \in Paths |-> <<>>]
    /\ removed_entity_ids = {}
    /\ custom_x_ray = [n \in {} |-> ""]
    /\ lemmas = <<>>
    /\ lemma_id = 0
    /\ mediawiki = {}
    /\ prefs = NoPrefs
    /\ lang = "en"
    /\ x_ray_xhtml = NotWritten
    /\ word_wise_xhtml = NotWritten
    /\ new_xhtml = [p \in Paths |-> NotWritten]
    /\ pc = "scan"
    /\ job \in Jobs

FindLemma ==
    /\ job.pc = "parsed"
    /\ \E keywords \in Keywords(job.text) :
          job' = [job EXCEPT !.pc = "found", !.keywords = keywords,
                             !.ll_rows = find_lemma(job.start, job.text,
                                                    keywords, job.is_kfx)]
    /\ UNCHANGED <<entity_id, entities, entity_occurrences,
                   removed_entity_ids, custom_x_ray, lemmas, lemma_id,
                   mediawiki, prefs, lang, x_ray_xhtml, word_wise_xhtml,
                   new_xhtml, pc>>

FindNamedEntity ==
    /\ job.pc = "parsed"
    /\ \E ents \in Ents(job.text) :
          job' = [job EXCEPT !.pc = "found", !.ents = ents,
                             !.x_ray_rows =
                                 find_named_entity(job.start, job.lang,
                                                   job.text, ents,
                                                   job.is_kfx)]
    /\ UNCHANGED <<entity_id, entities, entity_occurrences,
                   removed_entity_ids, custom_x_ray, lemmas, lemma_id,
                   mediawiki, prefs, lang, x_ray_xhtml, word_wise_xhtml,
                   new_xhtml, pc>>

NextOffsets == FindLemma \/ FindNamedEntity

SpecOffsets == InitOffsets /\ [][NextOffsets]_vars

\* ------------------------------------------------------ one unit per book
\* the length of a text in the unit of the book: characters for KFX,
\* UTF-8 bytes otherwise
RECURSIVE ByteCount(_)
ByteCount(s) == IF s = <<>> THEN 0 ELSE Utf8Len(s[1]) + ByteCount(Tail(s))

UnitCount(s, is_kfx) == IF is_kfx THEN Len(s) ELSE ByteCount(s)

\* what stands at an offset of the fragment, over a length, in that unit
AtOffset(text, offset, length, is_kfx) ==
    IF is_kfx THEN Slice(text, offset, offset + length)
    ELSE Slice(encode(text), offset, offset + length)

InUnit(s, is_kfx) == IF is_kfx THEN s ELSE encode(s)

\* C13: the offsets emitted by find_lemma and find_named_entity are in one
\* unit per book, characters for KFX and UTF-8 bytes otherwise: the start is
\* the fragment's start plus the length, in that unit, of the text before
\* the match, the length is the match's length in that unit, so the match
\* stands at the emitted place; find_lemma emits an end, start + length,
\* exactly for a lemma with a space, and null otherwise.
C13_OneUnitPerBook ==
    job.pc = "found" =>
        /\ Len(job.ll_rows) = Len(job.keywords)
        /\ \A k \in 1..Len(job.ll_rows) :
              LET row == job.ll_rows[k]
                  token_start == job.keywords[k][1]
                  lemma == Slice(job.text, token_start, job.keywords[k][2])
                  length == UnitCount(lemma, job.is_kfx)
              IN /\ row[1] = job.start
                              + UnitCount(Slice(job.text, 0, token_start),
                                          job.is_kfx)
                 /\ AtOffset(job.text, row[1] - job.start, length, job.is_kfx)
                        = InUnit(lemma, job.is_kfx)
                 /\ (row[2] # None) <=> (\E i \in 1..Len(lemma) : lemma[i] = " ")
                 /\ row[2] # None => row[2] = row[1] + length
        /\ \A k \in 1..Len(job.x_ray_rows) :
              LET row == job.x_ray_rows[k]
              IN /\ row.ent_len = UnitCount(row.text, job.is_kfx)
                 /\ \E ent \in Range(job.ents) :
                       \E c \in ent.start_char..ent.end_char :
                           /\ Slice(job.text, c, c + Len(row.text)) = row.text
                           /\ c + Len(row.text) <= ent.end_char
                           /\ row.ent_start = job.start
                                  + UnitCount(Slice(job.text, 0, c),
                                              job.is_kfx)
                 /\ AtOffset(job.text, row.ent_start - job.start, row.ent_len,
                             job.is_kfx)
                        = InUnit(row.text, job.is_kfx)

\* C13 witness: in a book counted in bytes, a lemma with a space was found
\* after a two-byte character, so its byte offset is not its character
\* offset, and it was given an end.
C13_Witness ==
    /\ job.pc = "found"
    /\ ~job.is_kfx
    /\ \E k \in 1..Len(job.ll_rows) :
          /\ job.ll_rows[k][2] # None
          /\ job.ll_rows[k][1] # job.start + job.keywords[k][1]
          /\ job.ll_rows[k][2] - job.ll_rows[k][1]
                 # job.keywords[k][2] - job.keywords[k][1]

====
